---- MODULE Spec2Model ----
(***************************************************************************)
(* Model of the local inference service: the model registry                *)
(* (model_registry.rs), the shared application state with the engine table *)
(* and the semaphore (app_state.rs), the load / infer / streaming handlers *)
(* (api.rs) and the engines (engine.rs).                                   *)
(*                                                                         *)
(* Strings the engines build are sequences of one-character strings, so    *)
(* that formatting, upper-casing and whitespace splitting are computed.    *)
(* A step is one critical section of a lock, one operation of the          *)
(* semaphore or of the channel, or the return of an engine call.           *)
(* tokio's semaphore queues the tasks it suspends and hands a released     *)
(* permit to the first of them.  SystemTime values are kept as None/Some.  *)
(***************************************************************************)
EXTENDS Integers, Sequences, FiniteSets, TLC

(* ---------------- bounds of the model ---------------- *)

\* number of requests of any kind the service receives in one run
MaxReq == 3

\* number of LoadModel requests the service receives in one run
MaxLoad == 2

\* number of Generate / GenerateStream requests it receives in one run
MaxGen == 2

\* largest value of max_concurrent_infer that AppState::new is given
MaxPermits == 2

\* largest length of the prompts that are enumerated
MaxPromptLen == 3

\* number of tasks whose lock steps are followed
MaxTasks == 2

(* ---------------- program constants ---------------- *)

\* mpsc::channel::<String>(32)
ChannelCapacity == 32

\* the requests: the first MaxLoad are loads, the others generation sessions
Req == 1..(MaxLoad + MaxGen)
Loaders == 1..MaxLoad
Sessions == (MaxLoad + 1)..(MaxLoad + MaxGen)

\* keys inserted by ModelRegistry::new
RegKeys == {"mistral-7b", "llama-3b"}

\* model names a request may carry: the two registered ones and an unknown one
Names == RegKeys \cup {"ghost"}

\* the characters of a model name
NameChars(n) ==
    CASE n = "llama-3b" -> <<"l", "l", "a", "m", "a", "-", "3", "b">>
      [] n = "mistral-7b" -> <<"m", "i", "s", "t", "r", "a", "l", "-", "7", "b">>
      [] OTHER -> <<"g", "h", "o", "s", "t">>

\* prompts a request may carry
Prompts == {<<"a", " ", "b">>}

\* texts the tokenizer of a CandleEngine may decode
CandleTexts == {<<"x">>}

VARIABLES
    max_concurrent_infer,  \* AppState.max_concurrent_infer
    models,                \* ModelRegistry.models : name -> ModelMetadata
    engines,               \* AppState.engines : name -> engine instance
    constructed,           \* number of engine instances constructed so far
    available,             \* permits the semaphore has available
    waiters,               \* FIFO queue of the tasks suspended in acquire_owned
    shutdown,              \* the Shutdown future has resolved
    pc,                    \* position of each request's handler
    args,                  \* kind, model_name, prompt and stream flag of each request
    meta,                  \* the handler's local `meta`
    engine,                \* the handler's local `engine`
    permit,                \* owner of the request's permit: none, session, producer
    resp,                  \* the response (or the error fragment) of the request
    prod,                  \* the spawned producer task: position, words, next index
    chan,                  \* fragments buffered in the mpsc channel
    rx_open,               \* the receiver half is alive
    tx_open,               \* the sender half is alive
    delivered,             \* fragments the EventStream has yielded
    registry_lock,         \* ModelRegistry.models : the writer and the readers
    engines_lock,          \* AppState.engines : the writer and the readers
    lk_op,                 \* the operation each task runs, for its lock steps
    lk_pc                  \* the lock step each task stands before

\* the state of the service without the two locks
svcVars == <<max_concurrent_infer, models, engines, constructed, available,
             waiters, shutdown, pc, args, meta, engine, permit, resp, prod, chan,
             rx_open, tx_open, delivered>>

\* the two locks and the tasks that take them
lockVars == <<registry_lock, engines_lock, lk_op, lk_pc>>

vars == <<svcVars, lockVars>>

semVars == <<available, waiters>>
streamVars == <<prod, chan, rx_open, tx_open, delivered>>

(* ---------------- model_registry.rs ---------------- *)

\* ModelMetadata::new : status Unloaded, last_updated None.
\* last_updated is 0 for None and 1 for Some(SystemTime::now())
ModelMetadata_new(name, path, quantization, engine_kind) ==
    [name |-> name, status |-> "Unloaded", path |-> path,
     quantization |-> quantization, engine_kind |-> engine_kind,
     last_updated |-> 0]

\* ModelRegistry::new
ModelRegistry_new ==
    [n \in RegKeys |->
        IF n = "mistral-7b"
        THEN ModelMetadata_new("mistral-7b", "./models/mistral-7b", "q4_k_m", "Candle")
        ELSE ModelMetadata_new("llama-3b", "./models/llama-3b", "q4_k_m", "Dummy")]

\* the local `meta` of a handler that has not read the registry
NoMeta ==
    [name |-> "", status |-> "None", path |-> "", quantization |-> "",
     engine_kind |-> "None", last_updated |-> 0]

\* a lookup that falls back to a registered model when the name is unknown
get_model_Default(name) ==
    IF name \in DOMAIN models THEN models[name] ELSE models["llama-3b"]

\* ModelRegistry::get_model : Some(clone) or None
get_model(name) == IF name \in DOMAIN models THEN models[name] ELSE NoMeta

\* enum ModelStatus
ModelStatus == {"Unloaded", "Loading", "Loaded", "Error"}

\* a set_status that creates the record of a name it does not find
set_status_Upsert(name, status) ==
    IF name \in DOMAIN models
    THEN [models EXCEPT ![name].status = status, ![name].last_updated = 1]
    ELSE [n \in DOMAIN models \cup {name} |->
             IF n = name
             THEN [ModelMetadata_new(name, "", "", "Dummy") EXCEPT
                      !.status = status, !.last_updated = 1]
             ELSE models[n]]

\* ModelRegistry::set_status : the registry after the call
set_status(name, status) ==
    IF name \in DOMAIN models
    THEN [models EXCEPT ![name].status = status, ![name].last_updated = 1]
    ELSE models

\* ModelRegistry::set_status : what the call returns, Some(clone) or None
set_status_result(name, status) ==
    IF name \in DOMAIN models THEN set_status(name, status)[name] ELSE NoMeta

\* ModelRegistry::list_models
list_models == {models[n] : n \in DOMAIN models}

(* ---------------- engine.rs ---------------- *)

NoEngine == [kind |-> "None", model_name |-> "", id |-> 0]

\* DummyEngine::new / CandleEngine::new (Ok case) : a fresh instance
Engine_new(kind, name) == [kind |-> kind, model_name |-> name, id |-> constructed + 1]

\* char::to_uppercase on the alphabet of the prompts
UpperChar(c) ==
    CASE c = "a" -> "A"
      [] c = "b" -> "B"
      [] OTHER -> c

\* str::to_uppercase
to_uppercase(s) == [i \in 1..Len(s) |-> UpperChar(s[i])]

IsWhitespace(c) == c = " "

\* format!("[{} DUMMY] {}", self.model_name, prompt.to_uppercase())
DummyFull(name, p) ==
    <<"[">> \o NameChars(name) \o <<" ", "D", "U", "M", "M", "Y", "]", " ">>
            \o to_uppercase(p)

\* a maximal run of non-whitespace characters starts at position i
IsWordStart(s, i) == ~IsWhitespace(s[i]) /\ (i = 1 \/ IsWhitespace(s[i - 1]))

\* the position where the run that starts at position i ends
WordEnd(s, i) ==
    CHOOSE j \in i..Len(s) :
        /\ \A k \in i..j : ~IsWhitespace(s[k])
        /\ j = Len(s) \/ IsWhitespace(s[j + 1])

\* the runs that start at the positions lo..hi, from left to right
RECURSIVE WordsBetween(_, _, _)
WordsBetween(s, lo, hi) ==
    IF lo > hi THEN <<>>
    ELSE IF lo = hi
    THEN (IF IsWordStart(s, lo) THEN <<SubSeq(s, lo, WordEnd(s, lo))>> ELSE <<>>)
    ELSE WordsBetween(s, lo, (lo + hi) \div 2)
            \o WordsBetween(s, (lo + hi) \div 2 + 1, hi)

\* a split that does not look at the last character
split_whitespace_DropsLast(s) == WordsBetween(s, 1, Len(s) - 1)

\* str::split_whitespace : the maximal runs of non-whitespace characters
split_whitespace(s) == WordsBetween(s, 1, Len(s))

\* DummyEngine::generate : the Ok text
DummyEngine_generate(name, p) == DummyFull(name, p)

\* format!("[model={}]", self.model_name)
ModelMarker(name) == <<"[", "m", "o", "d", "e", "l", "=">> \o NameChars(name) \o <<"]">>

\* a generate_stream that leaves out words.insert(0, marker)
DummyEngine_words_NoMarker(name, p) == split_whitespace(DummyFull(name, p))

\* DummyEngine::generate_stream : the vector `words` after the insert at 0
DummyEngine_words(name, p) == <<ModelMarker(name)>> \o split_whitespace(DummyFull(name, p))

\* CandleEngine::generate_stream : full.split_whitespace()
CandleEngine_words(full) == split_whitespace(full)

(* ---------------- responses and fragments ---------------- *)

NoResp == [class |-> "None", name |-> "", status |-> "", text |-> <<>>]

\* a response or fragment carrying an error message that names the model
ErrResp(class, name, status) ==
    [class |-> class, name |-> name, status |-> status, text |-> <<>>]

\* a response or fragment carrying generated text
TextResp(name, text) == [class |-> "Text", name |-> name, status |-> "", text |-> text]

NoProd == [pc |-> "none", words |-> <<>>, i |-> 0]

(* ---------------- the two RwLocks ---------------- *)

LockTasks == 1..MaxTasks

\* a parking_lot::RwLock that nobody holds
NoLock == [writer |-> 0, readers |-> {}]

(* ---------------- app_state.rs : AppState::new ---------------- *)

Init ==
    /\ max_concurrent_infer \in 1..MaxPermits
    /\ models = ModelRegistry_new
    /\ engines = [n \in {} |-> NoEngine]
    /\ constructed = 0
    /\ available = max_concurrent_infer
    /\ waiters = <<>>
    /\ shutdown = FALSE
    /\ pc = [r \in Req |-> "idle"]
    /\ args = [r \in Req |-> [kind |-> "None", model_name |-> "", prompt |-> <<>>, stream |-> TRUE]]
    /\ meta = [r \in Req |-> NoMeta]
    /\ engine = [r \in Req |-> NoEngine]
    /\ permit = [r \in Req |-> "none"]
    /\ resp = [r \in Req |-> NoResp]
    /\ prod = [r \in Req |-> NoProd]
    /\ chan = [r \in Req |-> <<>>]
    /\ rx_open = [r \in Req |-> FALSE]
    /\ tx_open = [r \in Req |-> FALSE]
    /\ delivered = [r \in Req |-> <<>>]
    /\ registry_lock = NoLock
    /\ engines_lock = NoLock
    /\ lk_op = [t \in LockTasks |-> "none"]
    /\ lk_pc = [t \in LockTasks |-> 0]

\* AppState::get_engine
get_engine(name) == IF name \in DOMAIN engines THEN engines[name] ELSE NoEngine

(* ---------------- arrival of requests ---------------- *)

\* request r of its pool arrives: the service has received fewer than MaxReq
\* requests, and the requests of a pool arrive in the order of their numbers
Arrives(r, pool) ==
    /\ pc[r] = "idle"
    /\ Cardinality({q \in Req : pc[q] # "idle"}) < MaxReq
    /\ \A q \in pool : q < r => pc[q] # "idle"

(* ---------------- tokio::sync::Semaphore ---------------- *)

\* the request a release wakes: the first task queued in acquire_owned
Woken == IF waiters = <<>> THEN {} ELSE {Head(waiters)}

\* a drop that forgets the permit: nothing is returned and nobody is woken
ReleaseBy_Leak(r, p) ==
    /\ UNCHANGED <<available, waiters>>
    /\ permit' = [permit EXCEPT ![r] = "none"]
    /\ pc' = [pc EXCEPT ![r] = p]

\* a drop that returns the permit to the counter and wakes nobody
ReleaseBy_NoWake(r, p) ==
    /\ available' = available + 1
    /\ UNCHANGED waiters
    /\ permit' = [permit EXCEPT ![r] = "none"]
    /\ pc' = [pc EXCEPT ![r] = p]

\* OwnedSemaphorePermit::drop by request r, which moves to position p: the
\* permit is handed to the first waiter, or returned to the semaphore
ReleaseBy(r, p) ==
    /\ available' = IF waiters = <<>> THEN available + 1 ELSE available
    /\ waiters' = IF waiters = <<>> THEN waiters ELSE Tail(waiters)
    /\ permit' = [q \in Req |-> IF q = r THEN "none"
                                ELSE IF q \in Woken THEN "session" ELSE permit[q]]
    /\ pc' = [q \in Req |-> IF q = r THEN p
                            ELSE IF q \in Woken THEN "acquired" ELSE pc[q]]

(* ---------------- api.rs : load_model / app_state.rs : load_model -------- *)

\* load_model, lines 39-42 : get_model, and the NotFound return
LoadGet(r) ==
    \E name \in Names :
        /\ Arrives(r, Loaders)
        /\ args' = [args EXCEPT ![r] = [kind |-> "Load", model_name |-> name,
                                        prompt |-> <<>>, stream |-> TRUE]]
        /\ meta' = [meta EXCEPT ![r] = get_model(name)]
        /\ IF get_model(name) = NoMeta
           THEN /\ pc' = [pc EXCEPT ![r] = "done"]
                /\ resp' = [resp EXCEPT ![r] = ErrResp("NotFound", name, "Error")]
           ELSE /\ pc' = [pc EXCEPT ![r] = "load_set_loading"]
                /\ UNCHANGED resp
        /\ UNCHANGED <<lockVars, max_concurrent_infer, models, engines, constructed, semVars,
                       shutdown, engine, permit, streamVars>>

\* a load that marks the model Loaded before the engine is in the table
LoadSetLoading_Early(r) ==
    /\ pc[r] = "load_set_loading"
    /\ models' = set_status(args[r].model_name, "Loaded")
    /\ pc' = [pc EXCEPT ![r] = "load_insert"]
    /\ UNCHANGED <<lockVars, max_concurrent_infer, engines, constructed, semVars, shutdown,
                   args, meta, engine, permit, resp, streamVars>>

\* load_model, line 45 : set_status(model_name, Loading)
LoadSetLoading(r) ==
    /\ pc[r] = "load_set_loading"
    /\ models' = set_status(args[r].model_name, "Loading")
    /\ pc' = [pc EXCEPT ![r] = "load_insert"]
    /\ UNCHANGED <<lockVars, max_concurrent_infer, engines, constructed, semVars, shutdown,
                   args, meta, engine, permit, resp, streamVars>>

\* load_model, lines 48-56 : the engine is constructed and inserted.  The
\* match has the Dummy arm only; the Candle arm is the placeholder of line 50
\* ("construct CandleEngine") and is taken to construct with CandleEngine::new
LoadInsert(r) ==
    /\ pc[r] = "load_insert"
    /\ LET name == args[r].model_name
           e == Engine_new(meta[r].engine_kind, name)
       IN engines' = [n \in DOMAIN engines \cup {name} |->
                         IF n = name THEN e ELSE engines[n]]
    /\ constructed' = constructed + 1
    /\ pc' = [pc EXCEPT ![r] = "load_set_loaded"]
    /\ UNCHANGED <<lockVars, max_concurrent_infer, models, semVars, shutdown, args, meta,
                   engine, permit, resp, streamVars>>

\* load_model, lines 48-51 with CandleEngine::new (engine.rs line 89, a
\* Result) returning Err : the error leaves load_model as every other error
\* of the function does, and the handler answers status "Error" (api.rs lines
\* 57-61).  No statement of the source sets ModelStatus::Error.
LoadConstructFail(r) ==
    /\ pc[r] = "load_insert"
    /\ meta[r].engine_kind = "Candle"
    /\ pc' = [pc EXCEPT ![r] = "done"]
    /\ meta' = [meta EXCEPT ![r] = NoMeta]
    /\ resp' = [resp EXCEPT ![r] = ErrResp("LoadFailed", args[r].model_name, "Error")]
    /\ UNCHANGED <<lockVars, max_concurrent_infer, models, engines, constructed, semVars,
                   shutdown, args, engine, permit, streamVars>>

\* a load that answers with the metadata it read at its start
LoadSetLoaded_StaleMeta(r) ==
    /\ pc[r] = "load_set_loaded"
    /\ models' = set_status(args[r].model_name, "Loaded")
    /\ resp' = [resp EXCEPT ![r] =
                  [class |-> "LoadOk", name |-> meta[r].name,
                   status |-> meta[r].status, text |-> <<>>]]
    /\ pc' = [pc EXCEPT ![r] = "done"]
    /\ UNCHANGED <<lockVars, max_concurrent_infer, engines, constructed, semVars, shutdown,
                   args, meta, engine, permit, streamVars>>

\* load_model, lines 59-64 : set_status(model_name, Loaded), then Ok(meta),
\* or Err when set_status returns None
LoadSetLoaded(r) ==
    /\ pc[r] = "load_set_loaded"
    /\ models' = set_status(args[r].model_name, "Loaded")
    /\ LET updated == set_status_result(args[r].model_name, "Loaded")
       IN IF updated # NoMeta
          THEN /\ meta' = [meta EXCEPT ![r] = updated]
               /\ resp' = [resp EXCEPT ![r] =
                             [class |-> "LoadOk", name |-> updated.name,
                              status |-> updated.status, text |-> <<>>]]
          ELSE /\ meta' = [meta EXCEPT ![r] = NoMeta]
               /\ resp' = [resp EXCEPT ![r] =
                             ErrResp("UpdateFailed", args[r].model_name, "Error")]
    /\ pc' = [pc EXCEPT ![r] = "done"]
    /\ UNCHANGED <<lockVars, max_concurrent_infer, engines, constructed, semVars, shutdown,
                   args, engine, permit, streamVars>>

(* ---------------- api.rs : infer ---------------- *)

\* a validation that leaves out the status check
InferGet_NoStatusCheck(r) ==
    \E name \in Names, p \in Prompts :
        /\ Arrives(r, Sessions)
        /\ args' = [args EXCEPT ![r] = [kind |-> "Generate", model_name |-> name,
                                        prompt |-> p, stream |-> TRUE]]
        /\ IF get_model(name) = NoMeta
           THEN /\ pc' = [pc EXCEPT ![r] = "done"]
                /\ resp' = [resp EXCEPT ![r] = ErrResp("NotFound", name, "")]
           ELSE /\ pc' = [pc EXCEPT ![r] = "get_engine"]
                /\ UNCHANGED resp
        /\ UNCHANGED <<lockVars, max_concurrent_infer, models, engines, constructed, semVars,
                       shutdown, meta, engine, permit, streamVars>>

\* infer, lines 73-89 : get_model, the NotFound and the NotLoaded returns
InferGet(r) ==
    \E name \in Names, p \in Prompts :
        /\ Arrives(r, Sessions)
        /\ args' = [args EXCEPT ![r] = [kind |-> "Generate", model_name |-> name,
                                        prompt |-> p, stream |-> TRUE]]
        /\ IF get_model(name) = NoMeta
           THEN /\ pc' = [pc EXCEPT ![r] = "done"]
                /\ resp' = [resp EXCEPT ![r] = ErrResp("NotFound", name, "")]
           ELSE IF get_model(name).status # "Loaded"
           THEN /\ pc' = [pc EXCEPT ![r] = "done"]
                /\ resp' = [resp EXCEPT ![r] =
                              ErrResp("NotLoaded", name, get_model(name).status)]
           ELSE /\ pc' = [pc EXCEPT ![r] = "get_engine"]
                /\ UNCHANGED resp
        /\ UNCHANGED <<lockVars, max_concurrent_infer, models, engines, constructed, semVars,
                       shutdown, meta, engine, permit, streamVars>>

\* infer, lines 91-98 : get_engine and the EngineMissing return
InferGetEngine(r) ==
    /\ pc[r] = "get_engine"
    /\ args[r].kind = "Generate"
    /\ engine' = [engine EXCEPT ![r] = get_engine(args[r].model_name)]
    /\ IF get_engine(args[r].model_name) = NoEngine
       THEN /\ pc' = [pc EXCEPT ![r] = "done"]
            /\ resp' = [resp EXCEPT ![r] = ErrResp("EngineMissing", args[r].model_name, "")]
       ELSE /\ pc' = [pc EXCEPT ![r] = "acquire"]
            /\ UNCHANGED resp
    /\ UNCHANGED <<lockVars, max_concurrent_infer, models, engines, constructed, semVars,
                   shutdown, args, meta, permit, streamVars>>

\* what follows acquire_owned().await without a suspension point.
\* infer, lines 102-103 : engine.generate(&prompt, 64) is called.
\* infer_stream lines 165-171, infer_stream_get lines 239-245 : the channel
\* is created and the producer task is spawned with the permit moved into it
EnterEngine(r) ==
    IF args[r].kind = "Generate"
    THEN /\ pc' = [pc EXCEPT ![r] = "in_engine"]
         /\ permit' = [permit EXCEPT ![r] = "session"]
         /\ UNCHANGED streamVars
    ELSE /\ pc' = [pc EXCEPT ![r] = "loop"]
         /\ permit' = [permit EXCEPT ![r] = "producer"]
         /\ chan' = [chan EXCEPT ![r] = <<>>]
         /\ rx_open' = [rx_open EXCEPT ![r] = TRUE]
         /\ tx_open' = [tx_open EXCEPT ![r] = TRUE]
         /\ prod' = [prod EXCEPT ![r] = [pc |-> "spawned", words |-> <<>>, i |-> 0]]
         /\ UNCHANGED delivered

\* an acquire that never suspends: it goes on whether a permit is left or not
Acquire_NoCheck(r) ==
    /\ pc[r] = "acquire"
    /\ available' = available - 1
    /\ UNCHANGED waiters
    /\ EnterEngine(r)
    /\ UNCHANGED <<lockVars, max_concurrent_infer, models, engines, constructed, shutdown,
                   args, meta, engine, resp>>

\* infer line 100, infer_stream line 162, infer_stream_get line 236 :
\* semaphore.acquire_owned().await takes a permit or suspends in the queue
Acquire(r) ==
    /\ pc[r] = "acquire"
    /\ IF available > 0
       THEN /\ available' = available - 1
            /\ UNCHANGED waiters
            /\ EnterEngine(r)
       ELSE /\ waiters' = Append(waiters, r)
            /\ pc' = [pc EXCEPT ![r] = "waiting"]
            /\ UNCHANGED <<available, permit, streamVars>>
    /\ UNCHANGED <<lockVars, max_concurrent_infer, models, engines, constructed, shutdown,
                   args, meta, engine, resp>>

\* a task that was handed a permit while suspended in acquire_owned resumes
Resume(r) ==
    /\ pc[r] = "acquired"
    /\ EnterEngine(r)
    /\ UNCHANGED <<lockVars, max_concurrent_infer, models, engines, constructed, semVars,
                   shutdown, args, meta, engine, resp>>

\* the results engine.generate may return: DummyEngine::generate is Ok(text);
\* CandleEngine::generate is Ok(decoded) or Err
GenerateResults(e, p) ==
    IF e.kind = "Dummy"
    THEN {TextResp(e.model_name, DummyEngine_generate(e.model_name, p))}
    ELSE {TextResp(e.model_name, t) : t \in CandleTexts}
         \cup {ErrResp("EngineFailure", e.model_name, "")}

\* an infer that unloads the model once it has answered
InferReturn_Unloads(r) ==
    /\ pc[r] = "in_engine"
    /\ \E res \in GenerateResults(engine[r], args[r].prompt) :
          resp' = [resp EXCEPT ![r] = [res EXCEPT !.name = args[r].model_name]]
    /\ engine' = [engine EXCEPT ![r] = NoEngine]
    /\ models' = set_status(args[r].model_name, "Unloaded")
    /\ engines' = [n \in DOMAIN engines \ {args[r].model_name} |-> engines[n]]
    /\ ReleaseBy(r, "done")
    /\ UNCHANGED <<lockVars, max_concurrent_infer, constructed, shutdown,
                   args, meta, streamVars>>

\* infer, lines 103-115 : generate returns, drop(permit), the response
InferReturn(r) ==
    /\ pc[r] = "in_engine"
    /\ \E res \in GenerateResults(engine[r], args[r].prompt) :
          resp' = [resp EXCEPT ![r] = [res EXCEPT !.name = args[r].model_name]]
    /\ engine' = [engine EXCEPT ![r] = NoEngine]
    /\ ReleaseBy(r, "done")
    /\ UNCHANGED <<lockVars, max_concurrent_infer, models, engines, constructed, shutdown,
                   args, meta, streamVars>>

(* ---------------- api.rs : infer_stream / infer_stream_get ------------- *)

\* the fragment is yielded but the return is missing: the handler goes on
YieldAndReturn_NoReturn(r, frag) ==
    /\ pc' = [pc EXCEPT ![r] = "get_engine"]
    /\ resp' = [resp EXCEPT ![r] = frag]
    /\ delivered' = [delivered EXCEPT ![r] = Append(delivered[r], frag)]

\* the stream yields one fragment and returns
YieldAndReturn(r, frag) ==
    /\ pc' = [pc EXCEPT ![r] = "done"]
    /\ resp' = [resp EXCEPT ![r] = frag]
    /\ delivered' = [delivered EXCEPT ![r] = Append(delivered[r], frag)]

\* a handler that takes its permit before it validates and keeps it when it
\* answers with an error
StreamGetModel_TakesPermit(r) ==
    \E name \in Names, p \in Prompts, flag \in BOOLEAN :
        /\ Arrives(r, Sessions)
        /\ available > 0
        /\ available' = available - 1
        /\ args' = [args EXCEPT ![r] = [kind |-> "GenerateStream", model_name |-> name,
                                        prompt |-> p, stream |-> flag]]
        /\ IF ~flag
           THEN YieldAndReturn(r, ErrResp("Unsupported", "", ""))
           ELSE IF get_model(name) = NoMeta
           THEN YieldAndReturn(r, ErrResp("NotFound", name, ""))
           ELSE IF get_model(name).status # "Loaded"
           THEN YieldAndReturn(r, ErrResp("NotLoaded", name, get_model(name).status))
           ELSE /\ pc' = [pc EXCEPT ![r] = "get_engine"]
                /\ UNCHANGED <<resp, delivered>>
        /\ UNCHANGED <<lockVars, max_concurrent_infer, models, engines, constructed,
                       waiters, shutdown, meta, engine, permit, prod, chan, rx_open,
                       tx_open>>

\* infer_stream lines 131-150, infer_stream_get lines 212-224 : the stream
\* flag (false only on POST /infer?stream=false), get_model, the NotFound and
\* the NotLoaded fragments.  The two handlers are the same code from here on.
StreamGetModel(r) ==
    \E name \in Names, p \in Prompts, flag \in BOOLEAN :
        /\ Arrives(r, Sessions)
        /\ args' = [args EXCEPT ![r] = [kind |-> "GenerateStream", model_name |-> name,
                                        prompt |-> p, stream |-> flag]]
        /\ IF ~flag
           THEN YieldAndReturn(r, ErrResp("Unsupported", "", ""))
           ELSE IF get_model(name) = NoMeta
           THEN YieldAndReturn(r, ErrResp("NotFound", name, ""))
           ELSE IF get_model(name).status # "Loaded"
           THEN YieldAndReturn(r, ErrResp("NotLoaded", name, get_model(name).status))
           ELSE /\ pc' = [pc EXCEPT ![r] = "get_engine"]
                /\ UNCHANGED <<resp, delivered>>
        /\ UNCHANGED <<lockVars, max_concurrent_infer, models, engines, constructed, semVars,
                       shutdown, meta, engine, permit, prod, chan, rx_open, tx_open>>

\* infer_stream lines 153-158, infer_stream_get lines 227-232 : get_engine
StreamGetEngine(r) ==
    /\ pc[r] = "get_engine"
    /\ args[r].kind = "GenerateStream"
    /\ engine' = [engine EXCEPT ![r] = get_engine(args[r].model_name)]
    /\ IF get_engine(args[r].model_name) = NoEngine
       THEN YieldAndReturn(r, ErrResp("EngineMissing", args[r].model_name, ""))
       ELSE /\ pc' = [pc EXCEPT ![r] = "acquire"]
            /\ UNCHANGED <<resp, delivered>>
    /\ UNCHANGED <<lockVars, max_concurrent_infer, models, engines, constructed, semVars,
                   shutdown, args, meta, permit, prod, chan, rx_open, tx_open>>

\* api.rs lines 168-171 / 242-245 : the producer task ends; the sender and
\* the permit it owns are dropped
ProdEnd(r) ==
    /\ prod' = [prod EXCEPT ![r] = [pc |-> "ended", words |-> <<>>, i |-> 0]]
    /\ tx_open' = [tx_open EXCEPT ![r] = FALSE]
    /\ ReleaseBy(r, pc[r])

\* the word lists generate_stream may iterate over; ok is FALSE when
\* CandleEngine::generate fails and `?` leaves generate_stream
StreamWords(e, p) ==
    IF e.kind = "Dummy"
    THEN {[ok |-> TRUE, words |-> DummyEngine_words(e.model_name, p)]}
    ELSE {[ok |-> TRUE, words |-> CandleEngine_words(t)] : t \in CandleTexts}
         \cup {[ok |-> FALSE, words |-> <<>>]}

\* engine.rs lines 61-66 (Dummy), line 238 (Candle) : the producer task
\* starts running engine.generate_stream
ProdStart(r) ==
    /\ prod[r].pc = "spawned"
    /\ engine' = [engine EXCEPT ![r] = NoEngine]
    /\ \E w \in StreamWords(engine[r], args[r].prompt) :
          IF ~w.ok
          THEN /\ ProdEnd(r)
               /\ UNCHANGED chan
          ELSE /\ prod' = [prod EXCEPT ![r] = [pc |-> "sending", words |-> w.words, i |-> 1]]
               /\ UNCHANGED <<semVars, permit, pc, tx_open, chan>>
    /\ UNCHANGED <<lockVars, max_concurrent_infer, models, engines, constructed, shutdown,
                   args, meta, resp, rx_open, delivered>>

\* a send that succeeds whether the receiver is there or not
ProdSend_IgnoreClosed(r) ==
    /\ prod[r].pc = "sending"
    /\ prod[r].i <= Len(prod[r].words)
    /\ Len(chan[r]) < ChannelCapacity
    /\ chan' = [chan EXCEPT ![r] =
                  Append(chan[r], TextResp("", prod[r].words[prod[r].i]))]
    /\ prod' = [prod EXCEPT ![r].i = prod[r].i + 1]
    /\ UNCHANGED <<semVars, permit, pc, tx_open>>
    /\ UNCHANGED <<lockVars, max_concurrent_infer, models, engines, constructed, shutdown,
                   args, meta, engine, resp, rx_open, delivered>>

\* a send into a channel without a capacity
ProdSend_Unbounded(r) ==
    /\ prod[r].pc = "sending"
    /\ prod[r].i <= Len(prod[r].words)
    /\ IF ~rx_open[r]
       THEN /\ ProdEnd(r)
            /\ UNCHANGED chan
       ELSE /\ chan' = [chan EXCEPT ![r] =
                          Append(chan[r], TextResp("", prod[r].words[prod[r].i]))]
            /\ prod' = [prod EXCEPT ![r].i = prod[r].i + 1]
            /\ UNCHANGED <<semVars, permit, pc, tx_open>>
    /\ UNCHANGED <<lockVars, max_concurrent_infer, models, engines, constructed, shutdown,
                   args, meta, engine, resp, rx_open, delivered>>

\* engine.rs lines 68-74 (Dummy), 239-244 (Candle) : one sender.send(w).await;
\* it fails when the receiver is gone and waits while the channel is full
ProdSend(r) ==
    /\ prod[r].pc = "sending"
    /\ prod[r].i <= Len(prod[r].words)
    /\ IF ~rx_open[r]
       THEN /\ ProdEnd(r)
            /\ UNCHANGED chan
       ELSE /\ Len(chan[r]) < ChannelCapacity
            /\ chan' = [chan EXCEPT ![r] =
                          Append(chan[r], TextResp("", prod[r].words[prod[r].i]))]
            /\ prod' = [prod EXCEPT ![r].i = prod[r].i + 1]
            /\ UNCHANGED <<semVars, permit, pc, tx_open>>
    /\ UNCHANGED <<lockVars, max_concurrent_infer, models, engines, constructed, shutdown,
                   args, meta, engine, resp, rx_open, delivered>>

\* engine.rs line 76, api.rs line 171 : the words are exhausted,
\* generate_stream returns Ok(()) and the task ends
ProdFinish(r) ==
    /\ prod[r].pc = "sending"
    /\ prod[r].i > Len(prod[r].words)
    /\ ProdEnd(r)
    /\ UNCHANGED <<lockVars, max_concurrent_infer, models, engines, constructed, shutdown,
                   args, meta, engine, resp, chan, rx_open, delivered>>

\* api.rs lines 176-181 : rx.recv() yields Some(text), forwarded as one event
ConsRecv(r) ==
    /\ pc[r] = "loop"
    /\ chan[r] # <<>>
    /\ delivered' = [delivered EXCEPT ![r] = Append(delivered[r], Head(chan[r]))]
    /\ chan' = [chan EXCEPT ![r] = Tail(chan[r])]
    /\ UNCHANGED <<lockVars, max_concurrent_infer, models, engines, constructed, semVars,
                   shutdown, pc, args, meta, engine, permit, resp, prod, rx_open,
                   tx_open>>

\* a loop that takes an empty channel for a closed one
ConsClosed_OnEmpty(r) ==
    /\ pc[r] = "loop"
    /\ chan[r] = <<>>
    /\ pc' = [pc EXCEPT ![r] = "done"]
    /\ rx_open' = [rx_open EXCEPT ![r] = FALSE]
    /\ UNCHANGED <<lockVars, max_concurrent_infer, models, engines, constructed, semVars,
                   shutdown, args, meta, engine, permit, resp, prod, chan, tx_open,
                   delivered>>

\* api.rs lines 182-185 : rx.recv() yields None, the loop breaks
ConsClosed(r) ==
    /\ pc[r] = "loop"
    /\ chan[r] = <<>>
    /\ ~tx_open[r]
    /\ pc' = [pc EXCEPT ![r] = "done"]
    /\ rx_open' = [rx_open EXCEPT ![r] = FALSE]
    /\ UNCHANGED <<lockVars, max_concurrent_infer, models, engines, constructed, semVars,
                   shutdown, args, meta, engine, permit, resp, prod, chan, tx_open,
                   delivered>>

\* a shutdown branch that forwards what is buffered before it breaks
ConsShutdown_Flush(r) ==
    /\ pc[r] = "loop"
    /\ shutdown
    /\ pc' = [pc EXCEPT ![r] = "done"]
    /\ rx_open' = [rx_open EXCEPT ![r] = FALSE]
    /\ delivered' = [delivered EXCEPT ![r] = delivered[r] \o chan[r]]
    /\ chan' = [chan EXCEPT ![r] = <<>>]
    /\ UNCHANGED <<lockVars, max_concurrent_infer, models, engines, constructed, semVars,
                   shutdown, args, meta, engine, permit, resp, prod, tx_open>>

\* a permit that stays with the handler: the shutdown branch drops it with
\* the receiver
ConsShutdown_DropsPermit(r) ==
    /\ pc[r] = "loop"
    /\ shutdown
    /\ rx_open' = [rx_open EXCEPT ![r] = FALSE]
    /\ chan' = [chan EXCEPT ![r] = <<>>]
    /\ IF permit[r] = "none"
       THEN /\ pc' = [pc EXCEPT ![r] = "done"]
            /\ UNCHANGED <<semVars, permit>>
       ELSE ReleaseBy(r, "done")
    /\ UNCHANGED <<lockVars, max_concurrent_infer, models, engines, constructed,
                   shutdown, args, meta, engine, resp, prod, tx_open,
                   delivered>>

\* api.rs lines 188-191 : the shutdown branch of select!, the loop breaks and
\* the receiver is dropped with whatever is buffered
ConsShutdown(r) ==
    /\ pc[r] = "loop"
    /\ shutdown
    /\ pc' = [pc EXCEPT ![r] = "done"]
    /\ rx_open' = [rx_open EXCEPT ![r] = FALSE]
    /\ chan' = [chan EXCEPT ![r] = <<>>]
    /\ UNCHANGED <<lockVars, max_concurrent_infer, models, engines, constructed, semVars,
                   shutdown, args, meta, engine, permit, resp, prod, tx_open,
                   delivered>>

\* rocket::Shutdown : the shutdown signal is raised
RaiseShutdown ==
    /\ ~shutdown
    /\ shutdown' = TRUE
    /\ UNCHANGED <<lockVars, max_concurrent_infer, models, engines, constructed, semVars,
                   pc, args, meta, engine, permit, resp, streamVars>>

(* ---------------- the service ---------------- *)

Next ==
    \/ \E r \in Loaders : LoadGet(r)
    \/ \E r \in Loaders : LoadSetLoading(r)
    \/ \E r \in Loaders : LoadInsert(r)
    \/ \E r \in Loaders : LoadConstructFail(r)
    \/ \E r \in Loaders : LoadSetLoaded(r)
    \/ \E r \in Sessions : InferGet(r)
    \/ \E r \in Sessions : InferGetEngine(r)
    \/ \E r \in Sessions : Acquire(r)
    \/ \E r \in Sessions : Resume(r)
    \/ \E r \in Sessions : InferReturn(r)
    \/ \E r \in Sessions : StreamGetModel(r)
    \/ \E r \in Sessions : StreamGetEngine(r)
    \/ \E r \in Sessions : ProdStart(r)
    \/ \E r \in Sessions : ProdSend(r)
    \/ \E r \in Sessions : ProdFinish(r)
    \/ \E r \in Sessions : ConsRecv(r)
    \/ \E r \in Sessions : ConsClosed(r)
    \/ \E r \in Sessions : ConsShutdown(r)
    \/ RaiseShutdown

Spec == Init /\ [][Next]_vars

\* the steps of the handlers and of the producer tasks, which the runtime
\* schedules; arrivals of requests and the shutdown signal are the environment's
Progress ==
    \/ \E r \in Loaders :
          LoadSetLoading(r) \/ LoadInsert(r) \/ LoadConstructFail(r) \/ LoadSetLoaded(r)
    \/ \E r \in Sessions :
          \/ InferGetEngine(r) \/ Acquire(r) \/ Resume(r) \/ InferReturn(r)
          \/ StreamGetEngine(r) \/ ProdStart(r) \/ ProdSend(r) \/ ProdFinish(r)
          \/ ConsRecv(r) \/ ConsClosed(r) \/ ConsShutdown(r)

\* every task that can run is eventually run
FairSpec == Spec /\ WF_vars(Progress)

(* ---------------- the engine under every prompt ---------------- *)

\* the prompts of length at most n over the alphabet a, b, space
PromptsUpTo(n) == UNION {[1..k -> {"a", "b", " "}] : k \in 0..n}

\* a prompt of ChannelCapacity words, so that its stream has more fragments
\* than the channel holds
LongPrompt == [i \in 1..(2 * ChannelCapacity - 1) |-> IF i % 2 = 1 THEN "a" ELSE " "]

StreamPrompts == PromptsUpTo(MaxPromptLen) \cup {LongPrompt}

\* the two sessions that are followed
SyncSession == MaxLoad + 1
StreamSession == MaxLoad + 2

\* the service after POST /models/load of "llama-3b" has returned and a
\* Generate and a GenerateStream request for it, with the same prompt, have
\* passed validation and stand before acquire_owned
StreamInit ==
    /\ max_concurrent_infer \in 1..MaxPermits
    /\ models = [ModelRegistry_new EXCEPT !["llama-3b"].status = "Loaded",
                                          !["llama-3b"].last_updated = 1]
    /\ engines = [n \in {"llama-3b"} |-> [kind |-> "Dummy", model_name |-> n, id |-> 1]]
    /\ constructed = 1
    /\ available = max_concurrent_infer
    /\ waiters = <<>>
    /\ shutdown = FALSE
    /\ pc = [r \in Req |-> IF r = 1 THEN "done"
                           ELSE IF r \in {SyncSession, StreamSession} THEN "acquire"
                           ELSE "idle"]
    /\ \E p \in StreamPrompts :
          args = [r \in Req |->
                    IF r = 1
                    THEN [kind |-> "Load", model_name |-> "llama-3b", prompt |-> <<>>,
                          stream |-> TRUE]
                    ELSE IF r = SyncSession
                    THEN [kind |-> "Generate", model_name |-> "llama-3b", prompt |-> p,
                          stream |-> TRUE]
                    ELSE IF r = StreamSession
                    THEN [kind |-> "GenerateStream", model_name |-> "llama-3b",
                          prompt |-> p, stream |-> TRUE]
                    ELSE [kind |-> "None", model_name |-> "", prompt |-> <<>>,
                          stream |-> TRUE]]
    /\ meta = [r \in Req |-> IF r = 1 THEN models["llama-3b"] ELSE NoMeta]
    /\ engine = [r \in Req |-> IF r \in {SyncSession, StreamSession}
                               THEN engines["llama-3b"] ELSE NoEngine]
    /\ permit = [r \in Req |-> "none"]
    /\ resp = [r \in Req |-> IF r = 1
                             THEN [class |-> "LoadOk", name |-> "llama-3b",
                                   status |-> "Loaded", text |-> <<>>]
                             ELSE NoResp]
    /\ prod = [r \in Req |-> NoProd]
    /\ chan = [r \in Req |-> <<>>]
    /\ rx_open = [r \in Req |-> FALSE]
    /\ tx_open = [r \in Req |-> FALSE]
    /\ delivered = [r \in Req |-> <<>>]
    /\ registry_lock = NoLock
    /\ engines_lock = NoLock
    /\ lk_op = [t \in LockTasks |-> "none"]
    /\ lk_pc = [t \in LockTasks |-> 0]

\* the steps of the two sessions, and the shutdown signal
StreamNext ==
    \/ \E r \in Sessions : Acquire(r)
    \/ \E r \in Sessions : Resume(r)
    \/ \E r \in Sessions : InferReturn(r)
    \/ \E r \in Sessions : ProdStart(r)
    \/ \E r \in Sessions : ProdSend(r)
    \/ \E r \in Sessions : ProdFinish(r)
    \/ \E r \in Sessions : ConsRecv(r)
    \/ \E r \in Sessions : ConsClosed(r)
    \/ \E r \in Sessions : ConsShutdown(r)
    \/ RaiseShutdown

StreamSpec == StreamInit /\ [][StreamNext]_vars

FairStreamSpec == StreamSpec /\ WF_vars(Progress)

(* ---------------- the lock steps of the operations ---------------- *)

\* one step of an operation that matters to the locks: "read" and "write"
\* take a guard of the lock, "unlock" drops it, "await" is a suspension point
Instr(op, lock) == [op |-> op, lock |-> lock]

\* ModelRegistry::get_model : the read guard lives to the end of the function
Prog_get_model == <<Instr("read", "registry"), Instr("unlock", "registry")>>

\* ModelRegistry::set_status
Prog_set_status == <<Instr("write", "registry"), Instr("unlock", "registry")>>

\* ModelRegistry::list_models, called by the list_models handler
Prog_list_models == <<Instr("read", "registry"), Instr("unlock", "registry")>>

\* AppState::get_engine
Prog_get_engine == <<Instr("read", "engines"), Instr("unlock", "engines")>>

\* a load_model whose guard of the engine table is not closed in a block and
\* lives to the end of the function
Prog_load_model_NestedGuard ==
    Prog_get_model \o Prog_set_status \o <<Instr("write", "engines")>>
        \o Prog_set_status \o <<Instr("unlock", "engines")>>

\* AppState::load_model, called by the load_model handler: get_model,
\* set_status(Loading), the block with engines.write(), set_status(Loaded)
Prog_load_model ==
    Prog_get_model \o Prog_set_status
        \o <<Instr("write", "engines"), Instr("unlock", "engines")>>
        \o Prog_set_status

\* infer : get_model, get_engine, acquire_owned().await, generate().await
Prog_infer ==
    Prog_get_model \o Prog_get_engine
        \o <<Instr("await", "none"), Instr("await", "none")>>

\* infer_stream, infer_stream_get : get_model, get_engine,
\* acquire_owned().await, the select! loop
Prog_infer_stream ==
    Prog_get_model \o Prog_get_engine
        \o <<Instr("await", "none"), Instr("await", "none")>>

Operations == {"list_models", "load_model", "infer", "infer_stream"}

Program(o) ==
    CASE o = "list_models" -> Prog_list_models
      [] o = "load_model" -> Prog_load_model
      [] o = "infer" -> Prog_infer
      [] o = "infer_stream" -> Prog_infer_stream
      [] OTHER -> <<>>

\* the steps before which an operation may return: load_model after a
\* get_model that found nothing; infer after get_model (NotFound, NotLoaded)
\* and after get_engine; infer_stream also at its start (stream flag)
ReturnPoints(o) ==
    CASE o = "load_model" -> {3}
      [] o = "infer" -> {3, 5}
      [] o = "infer_stream" -> {1, 3, 5}
      [] OTHER -> {}

LockOf(l) == IF l = "registry" THEN registry_lock ELSE engines_lock

\* task t holds a guard of lock l
HoldsLock(t, l) == LockOf(l).writer = t \/ t \in LockOf(l).readers

\* task t is inside an operation
LockRunning(t) == lk_op[t] # "none" /\ lk_pc[t] <= Len(Program(lk_op[t]))

\* the step task t stands before
CurrentInstr(t) == Program(lk_op[t])[lk_pc[t]]

\* lock l becomes v, the other lock stays
SetLock(l, v) ==
    IF l = "registry"
    THEN registry_lock' = v /\ UNCHANGED engines_lock
    ELSE engines_lock' = v /\ UNCHANGED registry_lock

\* a handler is called on task t
LockCall(t) ==
    /\ lk_op[t] = "none"
    /\ \E o \in Operations : lk_op' = [lk_op EXCEPT ![t] = o]
    /\ lk_pc' = [lk_pc EXCEPT ![t] = 1]
    /\ UNCHANGED <<svcVars, registry_lock, engines_lock>>

\* RwLock::read : waits while there is a writer
LockRead(t) ==
    /\ LockRunning(t)
    /\ CurrentInstr(t).op = "read"
    /\ LockOf(CurrentInstr(t).lock).writer = 0
    /\ SetLock(CurrentInstr(t).lock,
               [LockOf(CurrentInstr(t).lock) EXCEPT !.readers = @ \cup {t}])
    /\ lk_pc' = [lk_pc EXCEPT ![t] = @ + 1]
    /\ UNCHANGED <<svcVars, lk_op>>

\* RwLock::write : waits while there is a writer or a reader
LockWrite(t) ==
    /\ LockRunning(t)
    /\ CurrentInstr(t).op = "write"
    /\ LockOf(CurrentInstr(t).lock) = NoLock
    /\ SetLock(CurrentInstr(t).lock,
               [LockOf(CurrentInstr(t).lock) EXCEPT !.writer = t])
    /\ lk_pc' = [lk_pc EXCEPT ![t] = @ + 1]
    /\ UNCHANGED <<svcVars, lk_op>>

\* the guard goes out of scope
LockUnlock(t) ==
    /\ LockRunning(t)
    /\ CurrentInstr(t).op = "unlock"
    /\ SetLock(CurrentInstr(t).lock,
               IF LockOf(CurrentInstr(t).lock).writer = t
               THEN [LockOf(CurrentInstr(t).lock) EXCEPT !.writer = 0]
               ELSE [LockOf(CurrentInstr(t).lock) EXCEPT !.readers = @ \ {t}])
    /\ lk_pc' = [lk_pc EXCEPT ![t] = @ + 1]
    /\ UNCHANGED <<svcVars, lk_op>>

\* the task is suspended at an .await and resumed
LockAwait(t) ==
    /\ LockRunning(t)
    /\ CurrentInstr(t).op = "await"
    /\ lk_pc' = [lk_pc EXCEPT ![t] = @ + 1]
    /\ UNCHANGED <<svcVars, lk_op, registry_lock, engines_lock>>

\* the operation returns before its end
LockReturn(t) ==
    /\ LockRunning(t)
    /\ lk_pc[t] \in ReturnPoints(lk_op[t])
    /\ lk_pc' = [lk_pc EXCEPT ![t] = Len(Program(lk_op[t])) + 1]
    /\ UNCHANGED <<svcVars, lk_op, registry_lock, engines_lock>>

LockNext ==
    \/ \E t \in LockTasks : LockCall(t)
    \/ \E t \in LockTasks : LockRead(t)
    \/ \E t \in LockTasks : LockWrite(t)
    \/ \E t \in LockTasks : LockUnlock(t)
    \/ \E t \in LockTasks : LockAwait(t)
    \/ \E t \in LockTasks : LockReturn(t)

\* the handlers running on MaxTasks tasks, seen at their lock steps
LockSpec == Init /\ [][LockNext]_vars

(* ---------------- properties ---------------- *)

\* the session is executing engine logic: engine.generate is in progress, or
\* its producer task is running
InEngine(r) == pc[r] = "in_engine" \/ prod[r].pc \in {"spawned", "sending"}

\* the sessions that hold a permit
Holders == {r \in Req : permit[r] # "none"}

\* C1: at most max_concurrent_infer sessions execute engine logic at any time,
\* and each of them holds a permit
C1_AtMostNInEngine ==
    /\ Cardinality({r \in Sessions : InEngine(r)}) <= max_concurrent_infer
    /\ \A r \in Sessions : InEngine(r) => permit[r] # "none"

\* all permits are in use by sessions inside the engine while another waits
C1_Witness ==
    /\ Cardinality({r \in Sessions : InEngine(r)}) = max_concurrent_infer
    /\ \E r \in Sessions : pc[r] = "waiting"

\* a session is live while its handler or its producer task can still run
Live(r) == pc[r] \in {"acquired", "in_engine"} \/ prod[r].pc \in {"spawned", "sending"}

\* C2: available permits plus permits held is max_concurrent_infer, only live
\* sessions hold permits, and when every session has ended all permits are back
C2_PermitsConserved ==
    /\ available + Cardinality(Holders) = max_concurrent_infer
    /\ \A r \in Req : permit[r] # "none" <=> Live(r)
    /\ (\A r \in Sessions : ~Live(r) /\ pc[r] \in {"idle", "done"})
          => available = max_concurrent_infer

\* a stream was abandoned on shutdown before everything was forwarded, its
\* producer has ended, and every permit is available again
C2_Witness ==
    /\ available = max_concurrent_infer
    /\ \E r \in Sessions :
          /\ shutdown /\ pc[r] = "done" /\ prod[r].pc = "ended"
          /\ Len(delivered[r]) = 1

\* C3: a session suspended in acquire finds no permit available, has not been
\* answered and is not in the engine; it is eventually in the engine with a permit
C3_WaiterProceeds ==
    /\ [](\A r \in Sessions :
            pc[r] = "waiting" =>
               /\ available = 0
               /\ Cardinality(Holders) = max_concurrent_infer
               /\ permit[r] = "none" /\ ~InEngine(r) /\ resp[r] = NoResp)
    /\ \A r \in Sessions :
          (pc[r] = "waiting") ~> (InEngine(r) /\ permit[r] # "none")

\* a session that was suspended has been handed a permit
C3_Witness == \E r \in Sessions : pc[r] = "acquired" /\ permit[r] = "session"

\* the load call of request r has passed get_model and has not returned
LoadRunning(r) == pc[r] \in {"load_set_loading", "load_insert", "load_set_loaded"}

\* C4: a LoadModel call that found the model Loaded changes neither the
\* registry nor the engine table, constructs no engine, and returns the
\* metadata it found
C4_LoadOfLoadedIsNoOp ==
    [][\A r \in Loaders :
          (LoadRunning(r) /\ meta[r].status = "Loaded" /\ pc'[r] # pc[r]) =>
             /\ models' = models
             /\ engines' = engines
             /\ constructed' = constructed
             /\ (pc'[r] = "done" => meta'[r] = meta[r])]_vars

\* C5: a model whose status is Loaded has an engine in the engine table, and
\* no request is ever answered EngineMissing
C5_LoadedHasEngine ==
    /\ \A n \in DOMAIN models :
          models[n].status = "Loaded" => get_engine(n) # NoEngine
    /\ \A r \in Sessions :
          /\ resp[r].class # "EngineMissing"
          /\ pc[r] \in {"acquire", "waiting", "acquired", "in_engine"}
                => engine[r] # NoEngine

\* a session reads the status and the engine of a model that is being loaded
\* again at that moment
C5_Witness ==
    \E r \in Sessions, l \in Loaders :
        /\ pc[r] = "get_engine"
        /\ pc[l] = "load_set_loaded"
        /\ args[l].model_name = args[r].model_name
        /\ models[args[r].model_name].status = "Loading"

\* a load call of model n has passed get_model and has not returned
LoadInFlight(n) == \E l \in Loaders : LoadRunning(l) /\ args[l].model_name = n

C7_UnknownIsNotFound ==
    \A r \in Req :
        (pc[r] # "idle" /\ args[r].model_name \notin DOMAIN models /\ args[r].stream) =>
           /\ pc[r] = "done"
           /\ resp[r].class = "NotFound"
           /\ resp[r].name = args[r].model_name
           /\ permit[r] = "none"
           /\ args[r].kind = "GenerateStream" => delivered[r] = <<resp[r]>>

\* an unknown model was asked for while no permit was available
C7_Witness ==
    /\ available = 0
    /\ \E r \in Sessions :
          /\ args[r].model_name = "ghost"
          /\ args[r].kind = "GenerateStream"
          /\ resp[r].class = "NotFound"

\* C8: at the step at which a session calls engine.generate, or its producer
\* task starts engine.generate_stream, the model's status is Loaded
C8_InvokeOnlyWhenLoaded ==
    [][\A r \in Sessions :
          (\/ pc[r] # "in_engine" /\ pc'[r] = "in_engine"
           \/ prod[r].pc = "spawned" /\ prod'[r].pc # "spawned")
          => models[args[r].model_name].status = "Loaded"]_vars

ValidationErrors == {"NotFound", "NotLoaded", "EngineMissing"}

\* C9: a stream that carries a validation error carries nothing else, is
\* closed and never had a producer task; a stream request that ended without
\* a producer task delivered exactly one fragment, a validation error
C9_OneErrorFragment ==
    \A r \in Sessions :
        (args[r].kind = "GenerateStream" /\ args[r].stream) =>
           /\ \A i \in 1..Len(delivered[r]) :
                 delivered[r][i].class \in ValidationErrors =>
                    /\ Len(delivered[r]) = 1
                    /\ pc[r] = "done"
                    /\ prod[r] = NoProd
                    /\ permit[r] = "none"
                    /\ delivered[r][1].name = args[r].model_name
           /\ (pc[r] = "done" /\ prod[r] = NoProd) =>
                 /\ Len(delivered[r]) = 1
                 /\ delivered[r][1].class \in ValidationErrors

\* a stream request for a model that is not loaded has been answered
C9_Witness ==
    \E r \in Sessions :
        /\ args[r].kind = "GenerateStream" /\ args[r].stream
        /\ pc[r] = "done"
        /\ delivered[r] = <<ErrResp("NotLoaded", args[r].model_name, "Loading")>>

\* C10: once the shutdown signal is raised, the consumer loop forwards no
\* further fragment
C10_NoForwardAfterSignal ==
    [][\A r \in Sessions :
          (shutdown /\ pc[r] = "loop") => delivered'[r] = delivered[r]]_vars

\* C10 as amended: after the signal the loop forwards only a fragment that is
\* buffered, the head of the channel; the step that takes the shutdown branch
\* forwards nothing and drops the receiver; nothing is forwarded after the
\* loop has ended
C10_StopsAtShutdownBranch ==
    [][\A r \in Sessions :
          /\ (shutdown /\ pc[r] = "loop" /\ delivered'[r] # delivered[r]) =>
                /\ chan[r] # <<>>
                /\ delivered'[r] = Append(delivered[r], Head(chan[r]))
          /\ (pc[r] = "loop" /\ pc'[r] = "done") =>
                /\ delivered'[r] = delivered[r]
                /\ ~rx_open'[r]
          /\ pc[r] = "done" => delivered'[r] = delivered[r]]_vars

\* the loop ended on the shutdown branch while the producer still had
\* fragments to send, after a fragment was forwarded
C10_Witness ==
    \E r \in Sessions :
        /\ shutdown /\ pc[r] = "done"
        /\ prod[r].pc = "sending"
        /\ Len(delivered[r]) >= 1

\* the producer task of session r is alive
ProducerRuns(r) == prod[r].pc \in {"spawned", "sending"}

\* C11: the permit of a streaming session is owned by the producer task for
\* the whole of its run, also when the consumer has already ended on
\* shutdown, and it is given up in the very step in which the producer ends,
\* not in any other step
C11_ProducerOwnsPermit ==
    /\ [](\A r \in Sessions :
            /\ ProducerRuns(r) => permit[r] = "producer"
            /\ prod[r].pc = "ended" => permit[r] = "none")
    /\ [][\A r \in Sessions :
            (permit[r] = "producer" /\ permit'[r] # "producer")
               <=> (ProducerRuns(r) /\ prod'[r].pc = "ended")]_vars

\* the consumer has ended on shutdown while the producer still sends and
\* holds the permit, and another request waits for it
C11_Witness ==
    \E r \in Sessions :
        /\ shutdown /\ pc[r] = "done" /\ ~rx_open[r]
        /\ prod[r].pc = "sending" /\ permit[r] = "producer"
        /\ waiters # <<>>

\* the texts of a sequence of fragments
Texts(frags) == [i \in 1..Len(frags) |-> frags[i].text]

\* session r is a GenerateStream of the reference-engine model
DummyStream(r) ==
    /\ args[r].kind = "GenerateStream" /\ args[r].stream
    /\ args[r].model_name \in DOMAIN models
    /\ models[args[r].model_name].engine_kind = "Dummy"

\* the stream of session r has ended without a shutdown signal
Uninterrupted(r) == ~shutdown /\ pc[r] = "done" /\ prod[r].pc = "ended"

\* the marker, then the whitespace-separated pieces of the text that the
\* synchronous generate returns for the request of session r
ExpectedFragments(r) ==
    <<ModelMarker(args[r].model_name)>>
       \o split_whitespace(DummyEngine_generate(args[r].model_name, args[r].prompt))

\* C12 as stated: the uninterrupted stream of "llama-3b" for the prompt "a b"
\* delivers "[model=llama-3b]", "[LLAMA-3B", "DUMMY]", "A", "B"
C12_ExampleUpperCaseName ==
    \A r \in Sessions :
        (DummyStream(r) /\ Uninterrupted(r) /\ args[r].model_name = "llama-3b"
            /\ args[r].prompt = <<"a", " ", "b">>)
        => Texts(delivered[r]) =
              << <<"[", "m", "o", "d", "e", "l", "=", "l", "l", "a", "m", "a", "-", "3", "b", "]">>,
                 <<"[", "L", "L", "A", "M", "A", "-", "3", "B">>,
                 <<"D", "U", "M", "M", "Y", "]">>, <<"A">>, <<"B">> >>

\* C12: in a stream of the Loaded reference-engine model the fragments received and
\* buffered are at every moment the first fragments of the marker followed
\* by the pieces of the synchronous text, in order, none lost or repeated;
\* the uninterrupted stream delivers all of them and closes; for "llama-3b"
\* and "a b" they are "[model=llama-3b]", "[llama-3b", "DUMMY]", "A", "B"
C12_MarkerThenPieces ==
    \A r \in Sessions :
        (DummyStream(r) /\ prod[r].pc # "none") =>
          LET e == ExpectedFragments(r)
              d == Texts(delivered[r])
          IN /\ (prod[r].pc = "sending" /\ rx_open[r])
                  => d \o Texts(chan[r]) = SubSeq(e, 1, prod[r].i - 1)
             /\ Len(d) <= Len(e)
             /\ d = SubSeq(e, 1, Len(d))
             /\ \A i \in 1..Len(d) : delivered[r][i].class = "Text"
             /\ Uninterrupted(r) => (d = e /\ chan[r] = <<>> /\ ~rx_open[r])
             /\ (Uninterrupted(r) /\ args[r].model_name = "llama-3b"
                    /\ args[r].prompt = <<"a", " ", "b">>)
                  => d = << <<"[", "m", "o", "d", "e", "l", "=", "l", "l", "a", "m", "a", "-", "3", "b", "]">>,
                            <<"[", "l", "l", "a", "m", "a", "-", "3", "b">>,
                            <<"D", "U", "M", "M", "Y", "]">>, <<"A">>, <<"B">> >>

\* the stream of "llama-3b" for "a b" has delivered its five fragments and
\* closed without a shutdown signal
C12_Witness ==
    \E r \in Sessions :
        /\ DummyStream(r) /\ Uninterrupted(r)
        /\ args[r].prompt = <<"a", " ", "b">>
        /\ Len(delivered[r]) = 5

\* the strings of a sequence, one after the other
RECURSIVE Concat(_)
Concat(ws) == IF ws = <<>> THEN <<>> ELSE Head(ws) \o Concat(Tail(ws))

\* a string without its whitespace characters
RemoveWhitespace(s) == SelectSeq(s, LAMBDA c : ~IsWhitespace(c))

\* the Generate and the GenerateStream request of the same prompt have both
\* been answered in full
BothAnswered ==
    /\ pc[SyncSession] = "done" /\ args[SyncSession].kind = "Generate"
    /\ DummyStream(StreamSession) /\ Uninterrupted(StreamSession)
    /\ args[SyncSession].prompt = args[StreamSession].prompt
    /\ args[SyncSession].model_name = args[StreamSession].model_name

\* C13 as stated: the fragments of the stream without the marker,
\* concatenated, are the text the synchronous generate returned
C13_ConcatEqualsSync ==
    BothAnswered =>
        Concat(Tail(Texts(delivered[StreamSession]))) = resp[SyncSession].text

\* C13: for every prompt, with leading, trailing or repeated whitespace or
\* empty, the fragments of the stream without the marker, concatenated, are
\* the text the synchronous generate returned without its whitespace; no
\* fragment is empty or holds whitespace; and the engine gives this for
\* every model name
C13_ConcatEqualsSyncWithoutWhitespace ==
    /\ BothAnswered =>
         /\ resp[SyncSession].class = "Text"
         /\ delivered[StreamSession] # <<>>
         /\ Concat(Tail(Texts(delivered[StreamSession])))
               = RemoveWhitespace(resp[SyncSession].text)
         /\ \A i \in 1..Len(delivered[StreamSession]) :
               /\ delivered[StreamSession][i].text # <<>>
               /\ RemoveWhitespace(delivered[StreamSession][i].text)
                     = delivered[StreamSession][i].text
    /\ (pc[StreamSession] = "acquire" /\ args[StreamSession].kind = "GenerateStream")
         => \A n \in Names :
               Concat(Tail(DummyEngine_words(n, args[StreamSession].prompt)))
                  = RemoveWhitespace(DummyEngine_generate(n, args[StreamSession].prompt))

\* both requests have been answered for a prompt with leading and repeated
\* whitespace
C13_Witness ==
    /\ BothAnswered
    /\ args[StreamSession].prompt = <<" ", " ", "a">>
    /\ Len(delivered[StreamSession]) = 4

\* the LoadModel calls of model n that have been made
LoadCalls(n) ==
    {l \in Loaders : pc[l] # "idle" /\ args[l].kind = "Load" /\ args[l].model_name = n}

\* C14: when the LoadModel calls of a reference-engine model, however they
\* interleaved, have all returned, the status of the model is Loaded, the
\* engine table holds exactly one engine for the name, and every call
\* returned metadata with status Loaded
C14_LoadsEndLoaded ==
    \A n \in RegKeys :
        (/\ models[n].engine_kind = "Dummy"
         /\ LoadCalls(n) # {}
         /\ \A l \in LoadCalls(n) : pc[l] = "done")
        => /\ models[n].status = "Loaded"
           /\ n \in DOMAIN engines
           /\ engines[n].kind = "Dummy"
           /\ Cardinality({m \in DOMAIN engines : engines[m].model_name = n}) = 1
           /\ \A l \in LoadCalls(n) :
                 /\ resp[l].class = "LoadOk"
                 /\ resp[l].name = n
                 /\ resp[l].status = "Loaded"
                 /\ meta[l].name = n
                 /\ meta[l].status = "Loaded"

\* two LoadModel calls of "llama-3b" have returned and each has constructed
\* an engine
C14_Witness ==
    /\ Cardinality(LoadCalls("llama-3b")) >= 2
    /\ \A l \in LoadCalls("llama-3b") : pc[l] = "done"
    /\ constructed >= 2

\* C15: Generate and GenerateStream validate in a fixed order and stop at the
\* first failure: NotFound exactly when the name is not in the registry;
\* otherwise NotLoaded exactly when the status read is not Loaded; otherwise
\* EngineMissing exactly when the engine table has no entry for the name;
\* the engine is entered only by a request that passed all three; and a
\* request has one outcome, which no later step changes
C15_ValidationOrder ==
    [][\A r \in Sessions :
          LET n == args'[r].model_name
          IN /\ (pc[r] = "idle" /\ pc'[r] # "idle" /\ args'[r].stream)
                  => /\ pc'[r] \in {"done", "get_engine"}
                     /\ resp'[r].class = "NotFound" <=> n \notin DOMAIN models
                     /\ resp'[r].class = "NotLoaded"
                           <=> (n \in DOMAIN models /\ models[n].status # "Loaded")
                     /\ pc'[r] = "get_engine"
                           <=> (n \in DOMAIN models /\ models[n].status = "Loaded")
                     /\ pc'[r] = "done" <=> resp'[r].class \in {"NotFound", "NotLoaded"}
             /\ (pc[r] = "get_engine" /\ pc'[r] # "get_engine")
                  => /\ pc'[r] \in {"done", "acquire"}
                     /\ resp'[r].class = "EngineMissing" <=> n \notin DOMAIN engines
                     /\ pc'[r] = "acquire" <=> n \in DOMAIN engines
                     /\ pc'[r] = "done" <=> resp'[r].class = "EngineMissing"
             /\ (~InEngine(r) /\ InEngine(r)')
                  => (pc[r] \in {"acquire", "acquired"} /\ resp[r] = NoResp)
             /\ resp[r] # NoResp => resp'[r] = resp[r]
             /\ resp'[r].class \in ValidationErrors
                  => (pc'[r] = "done" /\ prod'[r] = NoProd /\ permit'[r] = "none")
      ]_vars

\* one request was refused with NotFound or NotLoaded, and another passed the
\* three checks and is in the engine
C15_Witness ==
    \E r1, r2 \in Sessions :
        /\ resp[r1].class \in {"NotLoaded", "NotFound"}
        /\ InEngine(r2)

\* the producer of session r has a fragment to send and the channel is full
BlockedOnFull(r) ==
    /\ prod[r].pc = "sending" /\ prod[r].i <= Len(prod[r].words)
    /\ rx_open[r] /\ Len(chan[r]) = ChannelCapacity

\* C16: the fragments sent and not yet received never number more than the
\* capacity 32 of the channel; while 32 are unreceived the producer does not
\* get past its next send: the step that follows for the session is a receive
\* of the consumer or the drop of the receiver
C16_ChannelBounded ==
    /\ [](\A r \in Sessions : Len(chan[r]) <= ChannelCapacity)
    /\ [][\A r \in Sessions :
            BlockedOnFull(r)
               => /\ prod'[r] = prod[r]
                  /\ chan'[r] # chan[r] => (Len(chan'[r]) < ChannelCapacity
                                             /\ (delivered'[r] # delivered[r]
                                                   \/ ~rx_open'[r]))]_vars

\* 32 fragments are unreceived and the producer has a 33rd to send
C16_Witness ==
    \E r \in Sessions : BlockedOnFull(r) /\ delivered[r] = <<>>

\* the consumer of session r has taken the shutdown branch and dropped the
\* receiver while the producer task was alive
Abandoned(r) == shutdown /\ pc[r] = "done" /\ ~rx_open[r] /\ ProducerRuns(r)

\* C17: once the consumer has stopped on shutdown and dropped the receiver,
\* the producer of the reference engine completes no further send: the
\* channel stays empty and the producer's next step after it has started is
\* its end, at the failed send or after the last word; and the permit it
\* holds is released in the end, also when it stood blocked on a full channel
C17_ProducerStopsAfterAbandon ==
    /\ [][\A r \in Sessions :
            Abandoned(r)
               => /\ chan[r] = <<>> /\ chan'[r] = <<>>
                  /\ delivered'[r] = delivered[r]
                  /\ prod'[r] # prod[r]
                       => \/ prod[r].pc = "spawned" /\ prod'[r].pc = "sending"
                             /\ prod'[r].i = 1
                          \/ prod'[r].pc = "ended" /\ permit'[r] = "none"]_vars
    /\ \A r \in Sessions :
          (Abandoned(r) /\ permit[r] = "producer")
             ~> (prod[r].pc = "ended" /\ permit[r] = "none")

\* the consumer dropped the receiver while 32 fragments were unreceived and
\* the producer was waiting to send the next; the producer still holds the
\* permit
C17_Witness ==
    \E r \in Sessions :
        /\ Abandoned(r) /\ permit[r] = "producer"
        /\ prod[r].pc = "sending" /\ prod[r].i <= Len(prod[r].words)
        /\ prod[r].i - 1 - Len(delivered[r]) = ChannelCapacity

\* C18: under fairness every streaming session of the reference engine that
\* passed validation and was given a permit terminates: its consumer loop
\* ends and the stream closes; the loop ends either on the closed channel,
\* after the producer has finished and every fragment it sent has been
\* forwarded, or on the shutdown signal
C18_SessionTerminates ==
    /\ \A r \in Sessions :
          (DummyStream(r) /\ pc[r] \in {"acquired", "loop"})
             ~> (pc[r] = "done" /\ ~rx_open[r])
    /\ [][\A r \in Sessions :
            (DummyStream(r) /\ pc[r] = "loop" /\ pc'[r] # "loop")
               => /\ pc'[r] = "done" /\ ~rx_open'[r] /\ chan'[r] = <<>>
                  /\ delivered'[r] = delivered[r]
                  /\ (~tx_open[r] /\ chan[r] = <<>>)
                       => /\ prod[r].pc = "ended"
                          /\ Texts(delivered[r]) = ExpectedFragments(r)
                  /\ (tx_open[r] \/ chan[r] # <<>>) => shutdown]_vars

\* a stream of more fragments than the channel holds has been forwarded in
\* full and has closed, with no shutdown signal
C18_Witness ==
    \E r \in Sessions :
        /\ DummyStream(r) /\ Uninterrupted(r) /\ ~rx_open[r]
        /\ Len(delivered[r]) > ChannelCapacity

\* registry record b is record a but for its status and its timestamp
SameButStatus(a, b) == b = [a EXCEPT !.status = b.status, !.last_updated = b.last_updated]

\* C19: the registry keeps the keys it was seeded with; set_status with a
\* name that is not a key returns None and leaves the registry as it is;
\* with a key it changes the status and the timestamp of that record and
\* nothing else; and no step of the service adds or removes a key or changes
\* another field of a record
C19_RegistryKeysFixed ==
    /\ [](/\ DOMAIN models = DOMAIN ModelRegistry_new
          /\ \A n \in Names, st \in ModelStatus :
                IF n \notin DOMAIN models
                THEN /\ set_status(n, st) = models
                     /\ set_status_result(n, st) = NoMeta
                ELSE /\ DOMAIN set_status(n, st) = DOMAIN models
                     /\ \A k \in DOMAIN models \ {n} : set_status(n, st)[k] = models[k]
                     /\ SameButStatus(models[n], set_status(n, st)[n])
                     /\ set_status(n, st)[n].status = st
                     /\ set_status_result(n, st) = set_status(n, st)[n])
    /\ [][/\ DOMAIN models' = DOMAIN models
          /\ \A k \in DOMAIN models : SameButStatus(models[k], models'[k])
          /\ Cardinality({k \in DOMAIN models : models'[k] # models[k]}) <= 1]_vars

\* set_status has made "llama-3b" Loaded and left the record of "mistral-7b"
\* as it was seeded, and a load of an unknown name was refused
C19_Witness ==
    /\ models["llama-3b"].status = "Loaded"
    /\ models["llama-3b"].last_updated = 1
    /\ models["mistral-7b"] = ModelRegistry_new["mistral-7b"]
    /\ \E l \in Loaders : resp[l].class = "NotFound"

\* task t stands before a read or a write that the lock does not grant
LockBlocked(t) ==
    /\ LockRunning(t)
    /\ \/ CurrentInstr(t).op = "read" /\ LockOf(CurrentInstr(t).lock).writer # 0
       \/ CurrentInstr(t).op = "write" /\ LockOf(CurrentInstr(t).lock) # NoLock

\* task t waits for a lock of which task u holds a guard
WaitsFor(t, u) == LockBlocked(t) /\ HoldsLock(u, CurrentInstr(t).lock)

\* C20: no task holds a guard of the registry lock and one of the
\* engine-table lock at the same time; no task holds a guard at a suspension
\* point; and there is no set of tasks each of which waits for a lock held
\* by a task of the set
C20_LockDiscipline ==
    /\ \A t \in LockTasks : ~(HoldsLock(t, "registry") /\ HoldsLock(t, "engines"))
    /\ \A t \in LockTasks :
          (LockRunning(t) /\ CurrentInstr(t).op = "await")
             => (~HoldsLock(t, "registry") /\ ~HoldsLock(t, "engines"))
    /\ \A t \in LockTasks :
          ~LockRunning(t) => (~HoldsLock(t, "registry") /\ ~HoldsLock(t, "engines"))
    /\ \A S \in SUBSET LockTasks :
          S # {} => \E t \in S : ~\E u \in S : WaitsFor(t, u)

\* one task holds the write guard of the engine table inside load_model
\* while another holds a guard of the registry
C20_Witness ==
    \E t, u \in LockTasks :
        /\ t # u
        /\ engines_lock.writer = t /\ lk_op[t] = "load_model"
        /\ HoldsLock(u, "registry")

\* the step is one of Generate / GenerateStream session r, of its producer
\* task or of its stream
SessionStep(r) ==
    \/ pc'[r] # pc[r] \/ args'[r] # args[r] \/ resp'[r] # resp[r]
    \/ engine'[r] # engine[r] \/ permit'[r] # permit[r]
    \/ prod'[r] # prod[r] \/ chan'[r] # chan[r] \/ delivered'[r] # delivered[r]
    \/ rx_open'[r] # rx_open[r] \/ tx_open'[r] # tx_open[r]

\* C21: only LoadModel changes the registry and the engine table: a step of
\* a Generate or GenerateStream session, whether it succeeds, fails
\* validation, fails in the engine or is cancelled by shutdown, and the
\* shutdown signal itself leave both as they are; a status becomes Loaded
\* only in the last step of a LoadModel call for that model; no step sets a
\* status to Unloaded and none removes an entry of the engine table
C21_OnlyLoadChangesStatus ==
    [][/\ \A r \in Sessions : SessionStep(r) => (models' = models /\ engines' = engines)
       /\ shutdown' # shutdown => (models' = models /\ engines' = engines)
       /\ (models' # models \/ engines' # engines)
             => \E l \in Loaders :
                   /\ args[l].kind = "Load" /\ LoadRunning(l) /\ pc'[l] # pc[l]
                   /\ \A n \in DOMAIN models :
                         models'[n] # models[n] => n = args[l].model_name
                   /\ \A n \in DOMAIN engines' :
                         (n \notin DOMAIN engines \/ engines'[n] # engines[n])
                            => n = args[l].model_name
       /\ \A n \in DOMAIN models :
             (models[n].status # "Loaded" /\ models'[n].status = "Loaded")
                => \E l \in Loaders :
                      /\ args[l].model_name = n
                      /\ pc[l] = "load_set_loaded" /\ pc'[l] = "done"
                      /\ resp'[l].class = "LoadOk"
       /\ \A n \in DOMAIN models :
             models[n].status # "Unloaded" => models'[n].status # "Unloaded"
       /\ \A n \in DOMAIN engines : n \in DOMAIN engines'
      ]_vars

\* a session has been answered by the engine and another was cancelled by
\* shutdown with its producer still running, and the model they used is
\* Loaded with its engine in the table
C21_Witness ==
    \E r1, r2 \in Sessions :
        /\ resp[r1].class \in {"Text", "EngineFailure"}
        /\ shutdown /\ pc[r2] = "done" /\ ProducerRuns(r2)
        /\ models[args[r2].model_name].status = "Loaded"
        /\ args[r2].model_name \in DOMAIN engines

\* the tasks suspended in the queue of the semaphore
Waiting == {waiters[i] : i \in 1..Len(waiters)}

\* session r was refused by validation
Refused(r) == resp[r].class \in ValidationErrors

\* C22: a Generate or GenerateStream request that fails validation never
\* holds, takes or waits for a permit: each of its steps leaves the count of
\* available permits and the queue as they are; it can be answered with its
\* error while all permits are held; and a request that reached the
\* semaphore is never answered with a validation error
C22_RefusedTakesNoPermit ==
    /\ [](\A r \in Sessions :
            /\ Refused(r)
                 => (pc[r] = "done" /\ permit[r] = "none" /\ r \notin Waiting
                       /\ prod[r] = NoProd)
            /\ pc[r] \in {"acquire", "waiting", "acquired", "in_engine", "loop"}
                 => resp[r] = NoResp
            /\ (available = 0 /\ Arrives(r, Sessions))
                 => /\ ENABLED (InferGet(r) /\ Refused(r)')
                    /\ ENABLED (StreamGetModel(r) /\ Refused(r)')
            /\ (available = 0 /\ pc[r] = "get_engine")
                 => ENABLED (InferGetEngine(r) \/ StreamGetEngine(r)))
    /\ [][\A r \in Sessions :
            /\ (pc[r] \in {"idle", "get_engine"} /\ pc'[r] # pc[r])
                 => (available' = available /\ waiters' = waiters /\ permit' = permit)
            /\ (~Refused(r) /\ Refused(r)')
                 => /\ pc[r] \in {"idle", "get_engine"} /\ pc'[r] = "done"
                    /\ available' = available /\ waiters' = waiters
                    /\ permit' = permit]_vars

\* every permit is held by a session in the engine, and a request has been
\* refused without a permit
C22_Witness ==
    /\ available = 0
    /\ Cardinality({q \in Sessions : InEngine(q)}) = max_concurrent_infer
    /\ \E r \in Sessions : Refused(r) /\ pc[r] = "done" /\ permit[r] = "none"

====
